---- MODULE Spec2Model ----
(***************************************************************************)
(* Model of run_pipelined_commands / run_piped_command (shell_funcs.c).    *)
(* One parent process runs the orchestration loop; every successful fork   *)
(* creates a child process with a copy of the parent's descriptor table.   *)
(* Descriptor tables map descriptor numbers to the open file they refer    *)
(* to, pipe() hands out the two lowest free numbers, close() and dup2()    *)
(* behave as the system calls do, including their failures.                *)
(***************************************************************************)
EXTENDS Integers, Naturals, Sequences, FiniteSets, TLC

\* ---- bounds --------------------------------------------------------------
MaxCmds == 3        \* largest number of commands in one pipeline
NFd == 7            \* descriptor numbers are 0 .. NFd-1
MaxFaults == 1      \* injected system-call failures per run

Fds == 0 .. (NFd - 1)
Cmds == 0 .. (MaxCmds - 1)
Slots == 0 .. (2 * MaxCmds - 1)

\* ---- open files ----------------------------------------------------------
None == <<"none", 0>>
Std(k) == <<"std", k>>
R(ch) == <<"r", ch>>
W(ch) == <<"w", ch>>
IsPipeEnd(o) == o[1] = "r" \/ o[1] = "w"
Unset == -1

EmptyTab == [f \in Fds |-> None]
InitTab == [f \in Fds |-> IF f < 3 THEN Std(f) ELSE None]

VARIABLES
    ncommands,   \* num_pipes + 1
    pc,          \* parent: "loop" "fork" "ff_close0" "ff_close1"
                 \*         "close_prev" "close_cur" "wait" "done"
    i,           \* loop variable of the spawning loop
    w,           \* loop variable of the wait loop
    pipe_fds,    \* the array; Unset where never written
    ptab,        \* the parent's descriptor table
    ret,         \* return value of run_pipelined_commands, Unset before
    cst,         \* child: "none" "close_rd" "dup_in" "close_in" "dup_out"
                 \*        "close_out" "run" "exec" "zombie" "reaped"
    ctab,        \* the children's descriptor tables
    cfd,         \* descriptor number the child's last dup2 read from pipes[]
    cstatus,     \* exit status of a terminated child
    cerr,        \* why a child ended before exec: "none" "close" "redirect" "runner"
    cops,        \* number of close/dup2 calls the child has made
    faults,      \* injected failures so far
    nforks,      \* successful forks
    nwaits,      \* wait calls made
    pclosed,     \* per pipe end: successful parent closes of a descriptor of it
    pforeign,    \* parent close calls on a descriptor that is no pipe end
    pfail,       \* which parent call failed: "none" "pipe" "fork" "close" "wait"
    failAt,      \* the iteration at which that call failed
    tokens,      \* the token sequence handed to run_pipelined_commands
    cur_tokens,  \* what is left of tokens after the last "|" found
    start_idx,   \* offset of cur_tokens in tokens
    n_added_commands,  \* segments stored so far
    sliced_tokens,     \* the segments, in order
    spc          \* segmentation: "idle" "slicing" "sliced"

vars == <<ncommands, pc, i, w, pipe_fds, ptab, ret, cst, ctab, cfd, cstatus,
          cerr, cops, faults, nforks, nwaits, pclosed, pforeign, pfail, failAt,
          tokens, cur_tokens, start_idx, n_added_commands, sliced_tokens, spc>>

pvars == <<pc, i, w, pipe_fds, ptab, ret, nforks, nwaits, pclosed, pforeign,
           pfail, failAt>>
cvars == <<cst, ctab, cfd, cstatus, cerr, cops>>
svars == <<tokens, cur_tokens, start_idx, n_added_commands, sliced_tokens, spc>>

num_pipes == ncommands - 1

Ends == {"r", "w"} \X (0 .. MaxCmds)

\* ---- system calls --------------------------------------------------------
IsOpen(tab, fd) == fd \in Fds /\ tab[fd] # None

FreeFds(tab) == {f \in Fds : tab[f] = None}
LowestFree(tab) == CHOOSE f \in FreeFds(tab) : \A g \in FreeFds(tab) : f <= g

\* close(fd): EBADF when fd is not open; otherwise it succeeds, or (injected)
\* fails, after which the descriptor may or may not have been released.
CloseOutcomes(tab, fd, canFault) ==
    IF ~IsOpen(tab, fd)
    THEN {[ok |-> FALSE, tab |-> tab, fault |-> 0]}
    ELSE {[ok |-> TRUE, tab |-> [tab EXCEPT ![fd] = None], fault |-> 0]}
         \cup (IF canFault
               THEN {[ok |-> FALSE, tab |-> [tab EXCEPT ![fd] = None], fault |-> 1],
                     [ok |-> FALSE, tab |-> tab, fault |-> 1]}
               ELSE {})

\* dup2(old, new): EBADF when old is not open; otherwise new refers to
\* what old refers to, or (injected) the call fails and changes nothing.
Dup2Outcomes(tab, old, new, canFault) ==
    IF ~IsOpen(tab, old)
    THEN {[ok |-> FALSE, tab |-> tab, fault |-> 0]}
    ELSE {[ok |-> TRUE, tab |-> [tab EXCEPT ![new] = tab[old]], fault |-> 0]}
         \cup (IF canFault
               THEN {[ok |-> FALSE, tab |-> tab, fault |-> 1]}
               ELSE {})

CanFault == faults < MaxFaults

\* Values a read of pipe_fds[k] can yield: the stored number for a slot that
\* was written; any number for a slot outside the array or never written.
ReadVals(k) ==
    IF k >= 0 /\ k < 2 * num_pipes /\ pipe_fds[k] # Unset
    THEN {pipe_fds[k]}
    ELSE Fds

STDIN_FILENO == 0
STDOUT_FILENO == 1

Init ==
    /\ ncommands \in 1 .. MaxCmds
    /\ pc = "loop"
    /\ i = 0
    /\ w = 0
    /\ pipe_fds = [k \in Slots |-> Unset]
    /\ ptab = InitTab
    /\ ret = Unset
    /\ cst = [c \in Cmds |-> "none"]
    /\ ctab = [c \in Cmds |-> EmptyTab]
    /\ cfd = [c \in Cmds |-> Unset]
    /\ cstatus = [c \in Cmds |-> Unset]
    /\ cerr = [c \in Cmds |-> "none"]
    /\ cops = [c \in Cmds |-> 0]
    /\ faults = 0
    /\ nforks = 0
    /\ nwaits = 0
    /\ pclosed = [e \in Ends |-> 0]
    /\ pforeign = 0
    /\ pfail = "none"
    /\ failAt = Unset
    /\ tokens = <<>>
    /\ cur_tokens = <<>>
    /\ start_idx = 0
    /\ n_added_commands = 0
    /\ sliced_tokens = <<>>
    /\ spc = "idle"

\* ---- parent: the spawning loop --------------------------------------------
\* Which array slots the parent closes after a successful fork.
\* (variant: the current channel's read slot instead of the previous one)
PrevReadIdx_cur(k) == 2 * k
PrevReadIdx(k) == 2 * k - 2
\* (variant: the previous channel's write slot)
CurWriteIdx_prev(k) == 2 * k - 1
CurWriteIdx(k) == 2 * k + 1
\* (variant: the previous read end is closed only after the last fork)
ParentClosesPrevRead_last(k) == k # 0 /\ k = ncommands - 1
\* (variant: the parent keeps every read end)
ParentClosesPrevRead_never(k) == FALSE
ParentClosesPrevRead(k) == k # 0
\* (variant: the parent keeps every write end)
ParentClosesCurWrite_never(k) == FALSE
ParentClosesCurWrite(k) == k # ncommands - 1
NeedsPipe(k) == k # ncommands - 1

\* Bookkeeping for one parent close of descriptor fd with outcome o.
NoteParentClose(fd, o) ==
    /\ ptab' = o.tab
    /\ faults' = faults + o.fault
    /\ IF IsOpen(ptab, fd) /\ IsPipeEnd(ptab[fd])
       THEN /\ pclosed' = [pclosed EXCEPT ![ptab[fd]] =
                              @ + (IF o.tab[fd] = None THEN 1 ELSE 0)]
            /\ pforeign' = pforeign
       ELSE /\ pclosed' = pclosed
            /\ pforeign' = pforeign + 1

Return(v) == pc' = "done" /\ ret' = v

PipeOk ==
    /\ pc = "loop" /\ i < ncommands /\ NeedsPipe(i)
    /\ Cardinality(FreeFds(ptab)) >= 2
    /\ LET rd == LowestFree(ptab)
           t1 == [ptab EXCEPT ![rd] = R(i)]
           wr == LowestFree(t1)
       IN /\ ptab' = [t1 EXCEPT ![wr] = W(i)]
          /\ pipe_fds' = [pipe_fds EXCEPT ![2 * i] = rd, ![2 * i + 1] = wr]
    /\ pc' = "fork"
    /\ UNCHANGED <<ncommands, i, w, ret, faults, nforks, nwaits, pclosed,
                   pforeign, pfail, failAt>>
    /\ UNCHANGED cvars
    /\ UNCHANGED svars

PipeFail ==
    /\ pc = "loop" /\ i < ncommands /\ NeedsPipe(i)
    /\ CanFault \/ Cardinality(FreeFds(ptab)) < 2
    /\ faults' = IF Cardinality(FreeFds(ptab)) < 2 THEN faults ELSE faults + 1
    /\ pfail' = "pipe" /\ failAt' = i
    /\ Return(1)
    /\ UNCHANGED <<ncommands, i, w, pipe_fds, ptab, nforks, nwaits, pclosed,
                   pforeign>>
    /\ UNCHANGED cvars
    /\ UNCHANGED svars

NoPipe ==
    /\ pc = "loop" /\ i < ncommands /\ ~NeedsPipe(i)
    /\ pc' = "fork"
    /\ UNCHANGED <<ncommands, i, w, pipe_fds, ptab, ret, faults, nforks,
                   nwaits, pclosed, pforeign, pfail, failAt>>
    /\ UNCHANGED cvars
    /\ UNCHANGED svars

\* (variant: the loop may stop after any iteration)
LoopExit_early ==
    /\ pc = "loop" /\ i > 0
    /\ pc' = "wait" /\ w' = 0
    /\ UNCHANGED <<ncommands, i, pipe_fds, ptab, ret, faults, nforks, nwaits,
                   pclosed, pforeign, pfail, failAt>>
    /\ UNCHANGED cvars
    /\ UNCHANGED svars

LoopExit ==
    /\ pc = "loop" /\ ~(i < ncommands)
    /\ pc' = "wait" /\ w' = 0
    /\ UNCHANGED <<ncommands, i, pipe_fds, ptab, ret, faults, nforks, nwaits,
                   pclosed, pforeign, pfail, failAt>>
    /\ UNCHANGED cvars
    /\ UNCHANGED svars

\* The parent's next position after a successful fork / after the first close.
AdvanceAfterPrev ==
    IF ParentClosesCurWrite(i)
    THEN pc' = "close_cur" /\ i' = i
    ELSE pc' = "loop" /\ i' = i + 1

AdvanceAfterFork ==
    IF ParentClosesPrevRead(i)
    THEN pc' = "close_prev" /\ i' = i
    ELSE AdvanceAfterPrev

\* ---- child: which calls the branch of command c makes ----------------------
\* (variant: only the first command closes the read end it does not use)
ChildClosesCurRead_first(c) == c = 0
ChildClosesCurRead(c) == c = 0 \/ c # ncommands - 1
\* (variant: no command is told to read from a pipe)
InIdx_none(c) == -1
InIdx(c) ==
    IF c = 0 THEN -1
    ELSE IF c = ncommands - 1 THEN 2 * (ncommands - 1) - 2
    ELSE 2 * c - 2
OutIdx(c) ==
    IF c = 0 THEN 1
    ELSE IF c = ncommands - 1 THEN -1
    ELSE 2 * c + 1

AfterIn(c) == IF OutIdx(c) # -1 THEN "dup_out" ELSE "run"
AfterCloseRd(c) == IF InIdx(c) # -1 THEN "dup_in" ELSE AfterIn(c)
ChildStart(c) == IF ChildClosesCurRead(c) THEN "close_rd" ELSE AfterCloseRd(c)

ForkOk ==
    /\ pc = "fork"
    /\ cst' = [cst EXCEPT ![i] = ChildStart(i)]
    /\ ctab' = [ctab EXCEPT ![i] = ptab]
    /\ nforks' = nforks + 1
    /\ AdvanceAfterFork
    /\ UNCHANGED <<ncommands, w, pipe_fds, ptab, ret, faults, nwaits, pclosed,
                   pforeign, pfail, failAt, cfd, cstatus, cerr, cops>>
    /\ UNCHANGED svars

ForkFail ==
    /\ pc = "fork"
    /\ CanFault
    /\ faults' = faults + 1
    /\ pfail' = "fork" /\ failAt' = i
    /\ pc' = "ff_close0"
    /\ UNCHANGED <<ncommands, i, w, pipe_fds, ptab, ret, nforks, nwaits,
                   pclosed, pforeign>>
    /\ UNCHANGED cvars
    /\ UNCHANGED svars

\* After a failed fork: close(pipe_fds[2*i]), then close(pipe_fds[2*i+1]).
ForkFailClose0 ==
    /\ pc = "ff_close0"
    /\ \E fd \in ReadVals(2 * i) :
         \E o \in CloseOutcomes(ptab, fd, CanFault) :
            /\ NoteParentClose(fd, o)
            /\ IF o.ok THEN pc' = "ff_close1" /\ ret' = ret ELSE Return(1)
    /\ UNCHANGED <<ncommands, i, w, pipe_fds, nforks, nwaits, pfail, failAt>>
    /\ UNCHANGED cvars
    /\ UNCHANGED svars

ForkFailClose1 ==
    /\ pc = "ff_close1"
    /\ \E fd \in ReadVals(2 * i + 1) :
         \E o \in CloseOutcomes(ptab, fd, CanFault) :
            /\ NoteParentClose(fd, o)
            /\ Return(1)
    /\ UNCHANGED <<ncommands, i, w, pipe_fds, nforks, nwaits, pfail, failAt>>
    /\ UNCHANGED cvars
    /\ UNCHANGED svars

ClosePrev ==
    /\ pc = "close_prev"
    /\ \E fd \in ReadVals(PrevReadIdx(i)) :
         \E o \in CloseOutcomes(ptab, fd, CanFault) :
            /\ NoteParentClose(fd, o)
            /\ IF o.ok
               THEN AdvanceAfterPrev /\ ret' = ret /\ UNCHANGED <<pfail, failAt>>
               ELSE Return(1) /\ i' = i /\ pfail' = "close" /\ failAt' = i
    /\ UNCHANGED <<ncommands, w, pipe_fds, nforks, nwaits>>
    /\ UNCHANGED cvars
    /\ UNCHANGED svars

CloseCur ==
    /\ pc = "close_cur"
    /\ \E fd \in ReadVals(CurWriteIdx(i)) :
         \E o \in CloseOutcomes(ptab, fd, CanFault) :
            /\ NoteParentClose(fd, o)
            /\ IF o.ok
               THEN pc' = "loop" /\ i' = i + 1 /\ ret' = ret
                    /\ UNCHANGED <<pfail, failAt>>
               ELSE Return(1) /\ i' = i /\ pfail' = "close" /\ failAt' = i
    /\ UNCHANGED <<ncommands, w, pipe_fds, nforks, nwaits>>
    /\ UNCHANGED cvars
    /\ UNCHANGED svars

\* ---- parent: the wait loop ---------------------------------------------------
\* wait(NULL) == -1 is the only test; the child's status is not looked at.
\* (variant: a non-zero exit status counts as a failed wait)
WaitFailed_status(rc, status) == rc = -1 \/ status # 0
WaitFailed(rc, status) == rc = -1

WaitReap(c) ==
    /\ pc = "wait" /\ w < ncommands
    /\ cst[c] = "zombie"
    /\ cst' = [cst EXCEPT ![c] = "reaped"]
    /\ nwaits' = nwaits + 1
    /\ IF WaitFailed(c, cstatus[c])
       THEN Return(1) /\ w' = w /\ pfail' = "wait" /\ failAt' = w
       ELSE pc' = pc /\ ret' = ret /\ w' = w + 1 /\ UNCHANGED <<pfail, failAt>>
    /\ UNCHANGED <<ncommands, i, pipe_fds, ptab, faults, nforks, pclosed,
                   pforeign, ctab, cfd, cstatus, cerr, cops>>
    /\ UNCHANGED svars

WaitFail ==
    /\ pc = "wait" /\ w < ncommands
    /\ CanFault
    /\ faults' = faults + 1
    /\ nwaits' = nwaits + 1
    /\ pfail' = "wait" /\ failAt' = w
    /\ Return(1)
    /\ UNCHANGED <<ncommands, i, w, pipe_fds, ptab, nforks, pclosed, pforeign>>
    /\ UNCHANGED cvars
    /\ UNCHANGED svars

WaitDone ==
    /\ pc = "wait" /\ ~(w < ncommands)
    /\ Return(0)
    /\ UNCHANGED <<ncommands, i, w, pipe_fds, ptab, faults, nforks, nwaits,
                   pclosed, pforeign, pfail, failAt>>
    /\ UNCHANGED cvars
    /\ UNCHANGED svars

\* ---- child processes ---------------------------------------------------------
\* run_piped_command returns 1 on every failure; the child branch of
\* run_pipelined_commands compares that result with -1 and exits 1 on a
\* match, otherwise it goes on to exit(0).
RunPipedError == 1
ExitStatusAfter(r) == IF r = -1 THEN 1 ELSE 0

\* Statuses an exec'ed command can end with.
ExitStatuses == {0, 1}

ChildExit(c, status, why) ==
    /\ cst' = [cst EXCEPT ![c] = "zombie"]
    /\ ctab' = [ctab EXCEPT ![c] = EmptyTab]
    /\ cstatus' = [cstatus EXCEPT ![c] = status]
    /\ cerr' = [cerr EXCEPT ![c] = why]

\* run_piped_command has returned r to the child branch: exit(1) when r is
\* -1, otherwise the exit(0) that ends the branch.
\* (variant: without that exit(0) the child leaves the branch and goes on
\* with the parent's loop)
ChildReturn_back(c, r, why) ==
    IF r = -1
    THEN ChildExit(c, 1, why)
    ELSE /\ cst' = [cst EXCEPT ![c] = "looping"]
         /\ cerr' = [cerr EXCEPT ![c] = why]
         /\ UNCHANGED <<ctab, cstatus>>
ChildReturn(c, r, why) == ChildExit(c, ExitStatusAfter(r), why)

ChildGoes(c, st, tab) ==
    /\ cst' = [cst EXCEPT ![c] = st]
    /\ ctab' = [ctab EXCEPT ![c] = tab]
    /\ UNCHANGED <<cstatus, cerr>>

\* close(pipe_fds[2*i]) in the child branch, exit(1) when it fails.
ChildCloseRd(c) ==
    /\ cst[c] = "close_rd"
    /\ \E fd \in ReadVals(2 * c) :
         \E o \in CloseOutcomes(ctab[c], fd, CanFault) :
            /\ faults' = faults + o.fault
            /\ IF o.ok
               THEN ChildGoes(c, AfterCloseRd(c), o.tab)
               ELSE ChildExit(c, 1, "close")
    /\ cops' = [cops EXCEPT ![c] = @ + 1]
    /\ UNCHANGED cfd
    /\ UNCHANGED <<ncommands>>
    /\ UNCHANGED pvars
    /\ UNCHANGED svars

\* run_piped_command: dup2(pipes[in_idx], STDIN_FILENO)
ChildDupIn(c) ==
    /\ cst[c] = "dup_in"
    /\ \E fd \in ReadVals(InIdx(c)) :
         \E o \in Dup2Outcomes(ctab[c], fd, STDIN_FILENO, CanFault) :
            /\ faults' = faults + o.fault
            /\ cfd' = [cfd EXCEPT ![c] = fd]
            /\ IF o.ok
               THEN ChildGoes(c, "close_in", o.tab)
               ELSE ChildReturn(c, RunPipedError, "redirect")
    /\ cops' = [cops EXCEPT ![c] = @ + 1]
    /\ UNCHANGED <<ncommands>>
    /\ UNCHANGED pvars
    /\ UNCHANGED svars

\* run_piped_command: close(pipes[in_idx])
ChildCloseIn(c) ==
    /\ cst[c] = "close_in"
    /\ \E o \in CloseOutcomes(ctab[c], cfd[c], CanFault) :
            /\ faults' = faults + o.fault
            /\ IF o.ok
               THEN ChildGoes(c, AfterIn(c), o.tab)
               ELSE ChildReturn(c, RunPipedError, "redirect")
    /\ cops' = [cops EXCEPT ![c] = @ + 1]
    /\ UNCHANGED cfd
    /\ UNCHANGED <<ncommands>>
    /\ UNCHANGED pvars
    /\ UNCHANGED svars

\* run_piped_command: dup2(pipes[out_idx], STDOUT_FILENO)
ChildDupOut(c) ==
    /\ cst[c] = "dup_out"
    /\ \E fd \in ReadVals(OutIdx(c)) :
         \E o \in Dup2Outcomes(ctab[c], fd, STDOUT_FILENO, CanFault) :
            /\ faults' = faults + o.fault
            /\ cfd' = [cfd EXCEPT ![c] = fd]
            /\ IF o.ok
               THEN ChildGoes(c, "close_out", o.tab)
               ELSE ChildReturn(c, RunPipedError, "redirect")
    /\ cops' = [cops EXCEPT ![c] = @ + 1]
    /\ UNCHANGED <<ncommands>>
    /\ UNCHANGED pvars
    /\ UNCHANGED svars

\* run_piped_command: close(pipes[out_idx])
ChildCloseOut(c) ==
    /\ cst[c] = "close_out"
    /\ \E o \in CloseOutcomes(ctab[c], cfd[c], CanFault) :
            /\ faults' = faults + o.fault
            /\ IF o.ok
               THEN ChildGoes(c, "run", o.tab)
               ELSE ChildReturn(c, RunPipedError, "redirect")
    /\ cops' = [cops EXCEPT ![c] = @ + 1]
    /\ UNCHANGED cfd
    /\ UNCHANGED <<ncommands>>
    /\ UNCHANGED pvars
    /\ UNCHANGED svars

\* run_command replaces the process image and never returns ...
ChildRunExec(c) ==
    /\ cst[c] = "run"
    /\ ChildGoes(c, "exec", ctab[c])
    /\ UNCHANGED <<cfd, cops, faults, ncommands>>
    /\ UNCHANGED pvars
    /\ UNCHANGED svars

\* ... or fails and returns 1, so that run_piped_command returns 1.
ChildRunFail(c) ==
    /\ cst[c] = "run"
    /\ ChildReturn(c, RunPipedError, "runner")
    /\ UNCHANGED <<cfd, cops, faults, ncommands>>
    /\ UNCHANGED pvars
    /\ UNCHANGED svars

\* The exec'ed command ends; its descriptors are released.
CmdExit(c) ==
    /\ cst[c] = "exec"
    /\ \E s \in ExitStatuses : ChildExit(c, s, "none")
    /\ UNCHANGED <<cfd, cops, faults, ncommands>>
    /\ UNCHANGED pvars
    /\ UNCHANGED svars

\* ---- specification ---------------------------------------------------------
ParentStep ==
    \/ PipeOk \/ PipeFail \/ NoPipe \/ LoopExit
    \/ ForkOk \/ ForkFail \/ ForkFailClose0 \/ ForkFailClose1
    \/ ClosePrev \/ CloseCur
    \/ (\E c \in Cmds : WaitReap(c)) \/ WaitFail \/ WaitDone

ChildSetup(c) ==
    \/ ChildCloseRd(c) \/ ChildDupIn(c) \/ ChildCloseIn(c)
    \/ ChildDupOut(c) \/ ChildCloseOut(c)
    \/ ChildRunExec(c) \/ ChildRunFail(c)

Next ==
    \/ PipeOk \/ PipeFail \/ NoPipe \/ LoopExit
    \/ ForkOk \/ ForkFail \/ ForkFailClose0 \/ ForkFailClose1
    \/ ClosePrev \/ CloseCur
    \/ (\E c \in Cmds : WaitReap(c)) \/ WaitFail \/ WaitDone
    \/ (\E c \in Cmds : ChildCloseRd(c))
    \/ (\E c \in Cmds : ChildDupIn(c))
    \/ (\E c \in Cmds : ChildCloseIn(c))
    \/ (\E c \in Cmds : ChildDupOut(c))
    \/ (\E c \in Cmds : ChildCloseOut(c))
    \/ (\E c \in Cmds : ChildRunExec(c))
    \/ (\E c \in Cmds : ChildRunFail(c))
    \/ (\E c \in Cmds : CmdExit(c))

Spec == Init /\ [][Next]_vars

TypeOK ==
    /\ ncommands \in 1 .. MaxCmds
    /\ pc \in {"loop", "fork", "ff_close0", "ff_close1", "close_prev",
               "close_cur", "wait", "done"}
    /\ ret \in {Unset, 0, 1}
    /\ faults \in 0 .. MaxFaults

\* ---- fairness: the scheduler runs every process that can run ----------------
\* Some process holds a descriptor referring to open file o.
Held(o) ==
    \/ \E fd \in Fds : ptab[fd] = o
    \/ \E c \in Cmds : \E fd \in Fds : ctab[c][fd] = o

\* Command 0 ends on its own; any other command ends once its standard
\* input, when it is the read end of a pipe, has no writer left.
CanFinish(c) ==
    \/ c = 0
    \/ ctab[c][STDIN_FILENO][1] # "r"
    \/ ~Held(W(ctab[c][STDIN_FILENO][2]))

CmdFinish(c) == CanFinish(c) /\ CmdExit(c)

\* The parent's steps other than an interrupted wait.
ParentRun ==
    \/ PipeOk \/ PipeFail \/ NoPipe \/ LoopExit
    \/ ForkOk \/ ForkFail \/ ForkFailClose0 \/ ForkFailClose1
    \/ ClosePrev \/ CloseCur
    \/ (\E c \in Cmds : WaitReap(c)) \/ WaitDone

FairSpec ==
    /\ Init /\ [][Next]_vars
    /\ WF_vars(ParentRun)
    /\ \A c \in Cmds : WF_vars(ChildSetup(c))
    /\ \A c \in Cmds : WF_vars(CmdFinish(c))

\* ---- segmentation of the token sequence ------------------------------------
MaxTokens == 4      \* longest token sequence segmented

Words == {"a", "b", "|"}
TokenSeqs == UNION {[1 .. n -> Words] : n \in 0 .. MaxTokens}

\* The string-vector helpers, with 0-based indices as in C.
strvec_num_occurrences(v, s) == Cardinality({j \in 1 .. Len(v) : v[j] = s})
strvec_find(v, s) ==
    IF \E j \in 1 .. Len(v) : v[j] = s
    THEN (CHOOSE j \in 1 .. Len(v) :
             v[j] = s /\ \A h \in 1 .. (j - 1) : v[h] # s) - 1
    ELSE -1
strvec_slice(v, start, end) == SubSeq(v, start + 1, end)

\* start_idx += pipe_token_idx + 1
\* (variant: the offset is not accumulated)
NextStart_reset(start, pipe_token_idx) == pipe_token_idx + 1
NextStart(start, pipe_token_idx) == start + pipe_token_idx + 1

SegInit ==
    /\ tokens \in TokenSeqs
    /\ ncommands = strvec_num_occurrences(tokens, "|") + 1
    /\ cur_tokens = strvec_slice(tokens, 0, Len(tokens))
    /\ start_idx = 0
    /\ n_added_commands = 0
    /\ sliced_tokens = <<>>
    /\ spc = "slicing"
    /\ pc = "seg"
    /\ i = 0
    /\ w = 0
    /\ pipe_fds = [k \in Slots |-> Unset]
    /\ ptab = InitTab
    /\ ret = Unset
    /\ cst = [c \in Cmds |-> "none"]
    /\ ctab = [c \in Cmds |-> EmptyTab]
    /\ cfd = [c \in Cmds |-> Unset]
    /\ cstatus = [c \in Cmds |-> Unset]
    /\ cerr = [c \in Cmds |-> "none"]
    /\ cops = [c \in Cmds |-> 0]
    /\ faults = 0
    /\ nforks = 0
    /\ nwaits = 0
    /\ pclosed = [e \in Ends |-> 0]
    /\ pforeign = 0
    /\ pfail = "none"
    /\ failAt = Unset

\* One iteration of the while loop: a "|" is found in cur_tokens.
SegSlice ==
    /\ spc = "slicing"
    /\ n_added_commands <= MaxTokens + 1
    /\ LET pipe_token_idx == strvec_find(cur_tokens, "|")
           start == NextStart(start_idx, pipe_token_idx)
       IN /\ pipe_token_idx # -1
          /\ sliced_tokens' =
                Append(sliced_tokens, strvec_slice(cur_tokens, 0, pipe_token_idx))
          /\ n_added_commands' = n_added_commands + 1
          /\ start_idx' = start
          /\ cur_tokens' = strvec_slice(tokens, start, Len(tokens))
    /\ UNCHANGED <<tokens, spc, ncommands>>
    /\ UNCHANGED pvars
    /\ UNCHANGED cvars
    /\ UNCHANGED faults

\* No "|" is left: the rest of cur_tokens is the last segment.
SegFinal ==
    /\ spc = "slicing"
    /\ strvec_find(cur_tokens, "|") = -1
    /\ sliced_tokens' =
          Append(sliced_tokens, strvec_slice(cur_tokens, 0, Len(cur_tokens)))
    /\ n_added_commands' = n_added_commands + 1
    /\ spc' = "sliced"
    /\ UNCHANGED <<tokens, cur_tokens, start_idx, ncommands>>
    /\ UNCHANGED pvars
    /\ UNCHANGED cvars
    /\ UNCHANGED faults

SegNext == SegSlice \/ SegFinal

SegSpec == SegInit /\ [][SegNext]_vars

\* ---- properties ---------------------------------------------------------------
Ended(c) == cst[c] = "zombie" \/ cst[c] = "reaped"
ParentPipeEnds == {fd \in Fds : IsPipeEnd(ptab[fd])}
Spawned == 0 .. (nforks - 1)

\* C1: with two or more commands, a child at the point where it calls
\* run_command holds no pipe end except the read end of channel c-1 on its
\* standard input and the write end of channel c on its standard output.
C1_ChildCleanAtExec ==
    \A c \in Cmds :
        (ncommands >= 2 /\ cst[c] \in {"run", "exec"}) =>
            \A fd \in Fds :
                IsPipeEnd(ctab[c][fd]) =>
                    \/ fd = STDIN_FILENO /\ c > 0 /\ ctab[c][fd] = R(c - 1)
                    \/ fd = STDOUT_FILENO /\ c < ncommands - 1
                         /\ ctab[c][fd] = W(c)

C1_Witness ==
    /\ ncommands >= 3
    /\ cst[1] = "run"
    /\ ctab[1][STDIN_FILENO] = R(0)
    /\ ctab[1][STDOUT_FILENO] = W(1)

\* C2: while no pipe, fork or close of the parent has failed, the parent
\* closes no pipe end twice and nothing that is not a pipe end; once the
\* spawning loop is over it has closed both ends of each of the N-1 channels
\* exactly once and holds no pipe end.
C2_ParentClosesOnce ==
    (pfail \in {"none", "wait"}) =>
        /\ pforeign = 0
        /\ \A e \in Ends : pclosed[e] <= 1
        /\ (i = ncommands) =>
              /\ \A ch \in 0 .. (ncommands - 2) :
                    pclosed[R(ch)] = 1 /\ pclosed[W(ch)] = 1
              /\ \A e \in Ends : e[2] > ncommands - 2 => pclosed[e] = 0
              /\ ParentPipeEnds = {}

C2_Witness ==
    /\ ncommands >= 3
    /\ pc = "wait"
    /\ pfail = "none"
    /\ pclosed[R(1)] = 1 /\ pclosed[W(1)] = 1

\* C3 as stated: whenever command c has ended, nobody holds the write end of
\* channel c.
C3_EndedMeansNoWriter ==
    \A c \in Cmds : Ended(c) => ~Held(W(c))

\* C3: run_pipelined_commands eventually returns, and while the parent is in
\* its wait loop nobody holds the write end of the channel of an ended command.
C3_NoDeadlock ==
    /\ <>(pc = "done")
    /\ [](pc = "wait" => \A c \in Cmds : Ended(c) => ~Held(W(c)))

C3_Witness ==
    /\ pc = "done" /\ ret = 0
    /\ ncommands >= 3
    /\ \A c \in 0 .. (ncommands - 1) : cst[c] = "reaped" /\ cerr[c] = "none"

\* C4: when all N commands were spawned and no wait failed, the function
\* has made exactly N wait calls when it returns.
C4_WaitsEqualSpawns ==
    (pc = "done" /\ nforks = ncommands /\ pfail # "wait") =>
        nwaits = ncommands

\* C5: after a failed fork the function returns having spawned nothing
\* more, holding no pipe end, having closed nothing that was never
\* allocated, and having waited for every process spawned before.
C5_ForkFailureCleanup ==
    (pc = "done" /\ pfail = "fork") =>
        /\ ret = 1
        /\ nforks = failAt
        /\ ParentPipeEnds = {}
        /\ pforeign = 0
        /\ \A c \in Spawned : cst[c] = "reaped"

\* C6: on every return the parent's descriptor table is what it was at the
\* call.
C6_NoLeakOnReturn ==
    pc = "done" => ptab = InitTab

\* C7: a single command creates no pipe, and its child makes no close or
\* dup2 call and runs the command with the parent's descriptors.
C7_SingleCommandInherits ==
    ncommands = 1 =>
        /\ \A k \in Slots : pipe_fds[k] = Unset
        /\ cops[0] = 0
        /\ cst[0] \in {"run", "exec"} => ctab[0] = InitTab

C9_FailedChildExitsNonZero ==
    \A c \in Cmds :
        (Ended(c) /\ cerr[c] \in {"redirect", "runner"}) => cstatus[c] = 1

\* C10: when creating the second channel fails, the function returns
\* failure, the parent holds neither end of the first channel, and no
\* process has been spawned.
C10_SecondPipeFailure ==
    (pc = "done" /\ pfail = "pipe" /\ failAt = 1) =>
        /\ ret = 1
        /\ ~(\E fd \in Fds : ptab[fd] = R(0) \/ ptab[fd] = W(0))
        /\ nforks = 0

\* The segments joined again, with "|" put back between them.
RECURSIVE Rejoin(_)
Rejoin(segs) ==
    IF Len(segs) = 0 THEN <<>>
    ELSE IF Len(segs) = 1 THEN segs[1]
    ELSE segs[1] \o <<"|">> \o Rejoin(Tail(segs))

\* C11: the segmentation never stores more than k+1 segments, none of them
\* contains "|", and when it is over there are exactly k+1 of them, which
\* joined with "|" give back the token sequence.
C11_SegmentsRoundTrip ==
    LET k == strvec_num_occurrences(tokens, "|")
    IN /\ n_added_commands <= k + 1
       /\ Len(sliced_tokens) = n_added_commands
       /\ \A j \in 1 .. Len(sliced_tokens) :
             strvec_num_occurrences(sliced_tokens[j], "|") = 0
       /\ spc = "sliced" =>
             /\ n_added_commands = k + 1
             /\ Rejoin(sliced_tokens) = tokens

C11_Witness ==
    /\ spc = "sliced"
    /\ tokens = <<"|", "a", "|", "|">>
    /\ sliced_tokens = << <<>>, <<"a">>, <<>>, <<>> >>

\* C12: with two or more commands, command c runs with the read end of
\* channel c-1 as its standard input (the inherited one for c = 0) and the
\* write end of channel c as its standard output (the inherited one for the
\* last command).
C12_Wiring ==
    \A c \in Cmds :
        (ncommands >= 2 /\ cst[c] \in {"run", "exec"}) =>
            /\ ctab[c][STDIN_FILENO] =
                  (IF c > 0 THEN R(c - 1) ELSE Std(STDIN_FILENO))
            /\ ctab[c][STDOUT_FILENO] =
                  (IF c < ncommands - 1 THEN W(c) ELSE Std(STDOUT_FILENO))

C12_Witness ==
    /\ ncommands >= 3
    /\ \A c \in 0 .. 2 : cst[c] = "exec"
    /\ ctab[0][STDIN_FILENO] = Std(0) /\ ctab[0][STDOUT_FILENO] = W(0)
    /\ ctab[1][STDIN_FILENO] = R(0) /\ ctab[1][STDOUT_FILENO] = W(1)
    /\ ctab[2][STDIN_FILENO] = R(1)

\* C13: a failed close in the parent does not stop the pipeline: when the
\* function returns after one, all N commands were spawned and reaped.
C13_CloseFailureProceeds ==
    (pc = "done" /\ pfail = "close") =>
        /\ nforks = ncommands
        /\ \A c \in 0 .. (ncommands - 1) : cst[c] = "reaped"

ParentOpenEnds == {ptab[fd] : fd \in ParentPipeEnds}
PrevRead(k) == IF k > 0 /\ k <= ncommands - 1 THEN {R(k - 1)} ELSE {}
CurBoth(k) == IF k < ncommands - 1 THEN {R(k), W(k)} ELSE {}

C15_ForkOrderThenWait ==
    /\ \A c \in Cmds : cst[c] # "none" <=> c < nforks
    /\ nforks <= ncommands
    /\ (pc = "wait" \/ nwaits > 0) => nforks = ncommands

C15_Witness ==
    /\ ncommands >= 3
    /\ pc = "wait" /\ nwaits = 1 /\ w = 1
    /\ nforks = ncommands
    /\ cst[2] = "reaped" /\ cst[0] = "exec"

BranchStates == {"close_rd", "dup_in", "close_in", "dup_out", "close_out", "run"}

\* C16: a forked child is in its branch, has exec'ed, or has exited; a
\* child whose close, dup2 or run_command failed has exited; only commands
\* 0 .. N-1 are ever forked, each once.
C16_ChildNeverReturns ==
    /\ \A c \in Cmds :
          /\ cst[c] \in BranchStates \cup {"none", "exec", "zombie", "reaped"}
          /\ cerr[c] # "none" => Ended(c)
          /\ c >= ncommands => cst[c] = "none"
    /\ nforks <= ncommands
    /\ nforks = Cardinality({c \in Cmds : cst[c] # "none"})

C16_Witness ==
    /\ ncommands >= 2
    /\ nforks = ncommands
    /\ cst[0] = "zombie" /\ cerr[0] = "runner"
    /\ cst[1] = "zombie" /\ cerr[1] = "redirect"

\* What the parent has forked and holds at each position of a run in which
\* none of its own calls failed.
ExpectedForks ==
    IF pc \in {"loop", "fork"} THEN i
    ELSE IF pc \in {"close_prev", "close_cur"} THEN i + 1
    ELSE ncommands
ExpectedOpenEnds ==
    IF pc = "loop" THEN PrevRead(i)
    ELSE IF pc \in {"fork", "close_prev"} THEN PrevRead(i) \cup CurBoth(i)
    ELSE IF pc = "close_cur" THEN CurBoth(i)
    ELSE {}

\* C17: when a close, dup2 or run_command has failed inside some child and
\* no call of the parent has failed, the parent has forked and closed
\* exactly what it has at that position in any run, and when it returns it
\* returns 0 with all N commands forked and reaped by N waits.
C17_ChildFailureIsLocal ==
    ((\E c \in Cmds : cerr[c] # "none") /\ pfail = "none") =>
        /\ nforks = ExpectedForks
        /\ ParentOpenEnds = ExpectedOpenEnds
        /\ pforeign = 0
        /\ pc = "done" =>
              /\ ret = 0
              /\ nwaits = ncommands
              /\ \A c \in 0 .. (ncommands - 1) : cst[c] = "reaped"

C17_Witness ==
    /\ ncommands >= 3
    /\ pc = "done" /\ ret = 0 /\ pfail = "none"
    /\ cerr[1] = "redirect" /\ cerr[0] = "none" /\ cerr[2] = "none"
    /\ nwaits = ncommands

\* C18: a channel exists only once its iteration has been reached; the
\* parent holds at most three pipe descriptors, all among the read end of
\* channel i-1 and the two ends of channel i; child c holds only ends among
\* the read end of channel c-1 and the two ends of channel c.
C18_AtMostThreeEnds ==
    /\ \A k \in Slots : pipe_fds[k] # Unset => k <= 2 * i + 1
    /\ Cardinality(ParentPipeEnds) <= 3
    /\ ParentOpenEnds \subseteq {R(i - 1), R(i), W(i)}
    /\ \A c \in Cmds : \A fd \in Fds :
          IsPipeEnd(ctab[c][fd]) => ctab[c][fd] \in {R(c - 1), R(c), W(c)}

C18_Witness ==
    /\ ncommands >= 3
    /\ pc = "close_prev" /\ i = 1
    /\ ParentOpenEnds = {R(0), R(1), W(1)}
    /\ cst[1] = "close_rd"
    /\ {ctab[1][fd] : fd \in Fds} = {None, Std(0), Std(1), Std(2), R(0), R(1), W(1)}
====
